---- MODULE Spec2Model ----
(***************************************************************************)
(* Event-study engine of capitol_shill (src/analysis/metrics.py) and the   *)
(* metadata cache (src/enrichment/asset_metadata.py).                      *)
(*                                                                         *)
(* Python strings are sequences of one-character strings.  Floats are      *)
(* exact rationals <<num, den>> (den > 0, lowest terms); None / NaN is the *)
(* empty tuple <<>>.  A price is g^k for a growth factor g and an integer  *)
(* exponent k, so that a day-over-day ratio is a rational that is computed *)
(* exactly.  Dates are day numbers.                                        *)
(***************************************************************************)
EXTENDS Integers, Sequences, FiniteSets, TLC

VARIABLES pc, trade, res, df, batch, _cache, lookups

vars == <<pc, trade, res, df, batch, _cache, lookups>>

None == <<>>
NaN == <<>>

----------------------------------------------------------------------------
(* Python str methods used by the source                                   *)

Lower == <<"a","b","c","d","e","f","g","h","i","j","k","l","m",
           "n","o","p","q","r","s","t","u","v","w","x","y","z">>
Upper == <<"A","B","C","D","E","F","G","H","I","J","K","L","M",
           "N","O","P","Q","R","S","T","U","V","W","X","Y","Z">>
Digits == {"0","1","2","3","4","5","6","7","8","9"}

IsSpace(c) == c = " "

upper_char(c) ==
  IF \E i \in 1..Len(Lower) : Lower[i] = c
  THEN Upper[CHOOSE i \in 1..Len(Lower) : Lower[i] = c]
  ELSE c

upper(s) == [i \in 1..Len(s) |-> upper_char(s[i])]

RECURSIVE lstrip(_)
lstrip(s) == IF s # <<>> /\ IsSpace(s[1]) THEN lstrip(Tail(s)) ELSE s

RECURSIVE rstrip(_)
rstrip(s) ==
  IF s # <<>> /\ IsSpace(s[Len(s)]) THEN rstrip(SubSeq(s, 1, Len(s) - 1)) ELSE s

strip(s) == rstrip(lstrip(s))

\* str.replace(old, new) for one-character old and new
replace(s, old, new) == [i \in 1..Len(s) |-> IF s[i] = old THEN new ELSE s[i]]

startswith(s, c) == s # <<>> /\ s[1] = c

isdigit(c) == c \in Digits

\* "needle in haystack" for strings
RECURSIVE contains(_, _)
contains(s, t) ==
  IF Len(t) > Len(s) THEN FALSE
  ELSE IF SubSeq(s, 1, Len(t)) = t THEN TRUE
  ELSE contains(Tail(s), t)

----------------------------------------------------------------------------
(* Exact rational arithmetic standing for float arithmetic                 *)

Abs(n) == IF n < 0 THEN -n ELSE n

RECURSIVE GCD(_, _)
GCD(a, b) == IF b = 0 THEN a ELSE GCD(b, a % b)

RNorm(n, d) ==
  IF n = 0 THEN <<0, 1>>
  ELSE LET g == GCD(Abs(n), d) IN <<n \div g, d \div g>>

Zero == <<0, 1>>
One == <<1, 1>>
RInt(n) == <<n, 1>>

RAdd(p, q) ==
  LET g == GCD(p[2], q[2])
  IN  RNorm(p[1] * (q[2] \div g) + q[1] * (p[2] \div g), (p[2] \div g) * q[2])

RNeg(p) == <<-p[1], p[2]>>
RSub(p, q) == RAdd(p, RNeg(q))

RMul(p, q) ==
  IF p[1] = 0 \/ q[1] = 0 THEN Zero
  ELSE LET g1 == GCD(Abs(p[1]), q[2])
           g2 == GCD(Abs(q[1]), p[2])
       IN  <<(p[1] \div g1) * (q[1] \div g2), (p[2] \div g2) * (q[2] \div g1)>>

RInv(p) == IF p[1] < 0 THEN <<-p[2], -p[1]>> ELSE <<p[2], p[1]>>
RDiv(p, q) == RMul(p, RInv(q))

RECURSIVE RPow(_, _)
RPow(g, e) ==
  IF e = 0 THEN One
  ELSE IF e < 0 THEN RInv(RPow(g, -e))
  ELSE RMul(g, RPow(g, e - 1))

----------------------------------------------------------------------------
(* Input values.  A ticker cell of the dataframe is a str or something     *)
(* else (a float nan read from a CSV); a transaction_date cell is NaT, a   *)
(* Timestamp (a day number) or a value that is not a date (a str).         *)

Str(s) == [isStr |-> TRUE, s |-> s]
NotStr == [isStr |-> FALSE, s |-> <<>>]

NaT == [kind |-> "NaT", day |-> 0]
Timestamp(d) == [kind |-> "ts", day |-> d]
DateStr == [kind |-> "str", day |-> 0]

isna_never(trade_date) == FALSE

\* pd.isna(trade_date)
isna(trade_date) == trade_date.kind = "NaT"

\* trade_date - timedelta(...) is defined on a Timestamp; on a str it raises
\* TypeError
supports_timedelta(trade_date) == trade_date.kind = "ts"

----------------------------------------------------------------------------
(* TICKER_MAP and the sanitizer of calculate_car                           *)

TICKER_MAP ==
  { << <<"$","B","T","C">>,                 <<"B","T","C","-","U","S","D">> >>,
    << <<"V","W","U","S","X",":","U","S">>, <<"V","W","U","S","X">> >>,
    << <<"X","S","P">>,                     <<"S","P","Y">> >> }

\* TICKER_MAP.get(key, default)
TICKER_MAP_get(key, default) ==
  IF \E e \in TICKER_MAP : e[1] = key
  THEN (CHOOSE e \in TICKER_MAP : e[1] = key)[2]
  ELSE default

\* if not isinstance(ticker, str) or ticker in ['--', 'NaN', '']
InvalidTickers == { <<"-","-">>, <<"N","a","N">>, <<>> }
skip_ticker(ticker) == ~ticker.isStr \/ ticker.s \in InvalidTickers

\* ticker.strip().upper().replace('/', '-').replace('.', '-')
sanitize(s) == replace(replace(upper(strip(s)), "/", "-"), ".", "-")

yahoo_symbol_remap_first(s) == sanitize(TICKER_MAP_get(s, s))

\* the two sanitizing statements of calculate_car
yahoo_symbol(s) == LET t == sanitize(s) IN TICKER_MAP_get(t, t)

benchmark == <<"^","G","S","P","C">>

EstStartDays == 200
EstEndDays == 10
FetchPadDays == 5
MinReturns == 50
DefaultWindowDays == 30

----------------------------------------------------------------------------
(* The price provider, yf.download(...)['Adj Close'].  It either raises    *)
(* (network error, malformed reply without an 'Adj Close' field) or        *)
(* returns a frame: a sorted date index and one price column per symbol,   *)
(* a cell being NaN or <<k>> for the price g^k.  A frame is described by   *)
(* a record p of                                                           *)
(*   first, last : days cut from the head and the tail of the range asked  *)
(*   cal         : "all" days or "weekdays" only                           *)
(*   col         : ticker column "ok", all-NaN ("nan") or left out         *)
(*   pa, pb      : the ticker / benchmark price rises every pa-th / pb-th  *)
(*                 row (0: flat)                                           *)
(*   gapA, gapB  : day offset of a single NaN cell (-1: none)              *)
(*   g           : the growth factor                                       *)

\* the days lo..hi of the calendar, in order
days_from(lo, hi, cal) ==
  SelectSeq([i \in 1..(IF hi < lo THEN 0 ELSE hi - lo + 1) |-> lo + i - 1],
            LAMBDA d : cal = "weekdays" => d % 7 \notin {5, 6})

level(period, i) == IF period = 0 THEN 0 ELSE (i - 1) \div period

\* start inclusive, end exclusive, as yfinance reads them
download(p, start, end) ==
  LET index == days_from(start + p.first, end - 1 - p.last, p.cal)
      n == Len(index)
  IN  [ index |-> index,
        hasTicker |-> p.col # "missing",
        ticker |-> [i \in 1..n |->
                      IF p.col # "ok" \/ index[i] = start + p.gapA
                      THEN NaN ELSE <<level(p.pa, i)>>],
        bench |-> [i \in 1..n |->
                      IF index[i] = start + p.gapB
                      THEN NaN ELSE <<level(p.pb, i)>>],
        g |-> p.g ]

----------------------------------------------------------------------------
(* pandas operations of calculate_car                                      *)

\* the price of row i, a NaN cell filled from the row before
ffill_at(col, i) ==
  IF i = 0 THEN NaN
  ELSE IF col[i] # NaN \/ i = 1 THEN col[i]
  ELSE col[i - 1]

pct_change_ffill(col, g) ==
  [i \in 1..Len(col) |->
     IF i = 1 THEN NaN
     ELSE IF ffill_at(col, i) = NaN \/ ffill_at(col, i - 1) = NaN THEN NaN
     ELSE RSub(RPow(g, ffill_at(col, i)[1] - ffill_at(col, i - 1)[1]), One)]

\* Series.pct_change(fill_method=None): price[i] / price[i-1] - 1, NaN when
\* either price is NaN and on the first row; g^a / g^b is g^(a-b)
pct_change(col, g) ==
  [i \in 1..Len(col) |->
     IF i = 1 THEN NaN
     ELSE IF col[i] = NaN \/ col[i-1] = NaN THEN NaN
     ELSE RSub(RPow(g, col[i][1] - col[i-1][1]), One)]

\* data.pct_change(fill_method=None) on every column of the frame
frame_pct_change(data) ==
  [ index |-> data.index,
    hasTicker |-> data.hasTicker,
    ticker |-> pct_change(data.ticker, data.g),
    bench |-> pct_change(data.bench, data.g) ]

\* DataFrame.dropna(): the rows with no NaN in any column the frame has
dropna(f) ==
  LET rows == [i \in 1..Len(f.index) |->
             [date |-> f.index[i], ticker |-> f.ticker[i], bench |-> f.bench[i]]]
  IN  SelectSeq(rows, LAMBDA r : r.bench # NaN /\ (f.hasTicker => r.ticker # NaN))

\* returns.loc[lo:hi]: label slice on the date index, both ends included
loc(rows, lo, hi) == SelectSeq(rows, LAMBDA r : lo <= r.date /\ r.date <= hi)

\* the sum of s[lo..hi], by halves
RECURSIVE RSumRange(_, _, _)
RSumRange(s, lo, hi) ==
  IF lo > hi THEN Zero
  ELSE IF lo = hi THEN s[lo]
  ELSE LET mid == (lo + hi) \div 2
       IN  RAdd(RSumRange(s, lo, mid), RSumRange(s, mid + 1, hi))

RSum(s, n) == RSumRange(s, 1, n)

\* LinearRegression().fit(X, y) with one feature: least squares on the
\* centred data, intercept_ = mean(y) - mean(X) * coef_.  The centred sums
\* are written expanded: sum (x - mx)^2 = sum x^2 - (sum x)^2 / n.  A
\* constant X centres to zero and the minimum-norm solution is coef_ = 0.
fit(X, y) ==
  LET n == Len(X)
      sx == RSum(X, n)
      sy == RSum(y, n)
      cxx == RSub(RSum([i \in 1..n |-> RMul(X[i], X[i])], n),
                  RDiv(RMul(sx, sx), RInt(n)))
      cxy == RSub(RSum([i \in 1..n |-> RMul(X[i], y[i])], n),
                  RDiv(RMul(sx, sy), RInt(n)))
      coef == IF cxx = Zero THEN Zero ELSE RDiv(cxy, cxx)
  IN  [ coef |-> coef,
        intercept |-> RSub(RDiv(sy, RInt(n)), RMul(RDiv(sx, RInt(n)), coef)) ]

abnormal_return_no_intercept(r, alpha, beta) == RSub(r.ticker, RMul(beta, r.bench))

\* abnormal_returns = actual_returns - (alpha + beta * market_returns)
abnormal_return(r, alpha, beta) ==
  RSub(r.ticker, RAdd(alpha, RMul(beta, r.bench)))

\* abnormal_returns.sum()
car_sum(evt_data, alpha, beta) ==
  RSum([i \in 1..Len(evt_data) |-> abnormal_return(evt_data[i], alpha, beta)],
       Len(evt_data))

----------------------------------------------------------------------------
(* Inputs                                                                  *)

TradeDay == 1000
ShortWindow == 7
MaxPeriod == 3
MaxBatch == 3
MaxLookups == 3

Growth == <<101, 100>>

Tickers ==
  { Str(<<"B","R","K","/","B">>), Str(<<"b","r","k",".","b">>),
    Str(<<"$","B","T","C">>), Str(<<"X","S","P">>), Str(<<" ","x","s","p"," ">>),
    Str(<<"V","W","U","S","X",":","U","S">>), Str(<<" ","a","a","p","l"," ">>),
    Str(<<"-","-">>), Str(<<"N","a","N">>), Str(<<>>), Str(<<" "," ">>),
    Str(<<" ","-","-">>), Str(<<"$","E","T","H">>), Str(<<"3","M">>), NotStr }

Dates == { NaT, Timestamp(TradeDay), DateStr }

Windows == { DefaultWindowDays, ShortWindow }

Base == [ first |-> 0, last |-> 0, cal |-> "all", col |-> "ok",
          pa |-> 2, pb |-> 3, gapA |-> -1, gapB |-> -1, g |-> Growth ]

\* frames that differ in the dates and columns they hold
Shapes ==
  { [Base EXCEPT !.first = f, !.last = l, !.cal = c, !.col = k] :
      f \in {0, 184, 185}, l \in {0, 20, 40},
      c \in {"all", "weekdays"}, k \in {"ok", "nan", "missing"} }

\* frames that differ in the two price paths
Patterns ==
  { [Base EXCEPT !.pa = a, !.pb = b] : a \in 0..MaxPeriod, b \in 0..MaxPeriod }

\* frames with a missing price in the estimation window, the event window
\* or the fetch padding
Gaps ==
  { [Base EXCEPT !.gapA = a, !.gapB = b] :
      a \in {-1, 100, 203, 232}, b \in {-1, 100, 204} }

\* frames in which both prices grow by the factor g on every row
Constant ==
  { [Base EXCEPT !.pa = 1, !.pb = 1, !.last = l, !.cal = c] :
      l \in {0, 20}, c \in {"all", "weekdays"} }

Frames == Shapes \cup Patterns \cup Gaps \cup Constant

Answers ==
  { [kind |-> "raise", p |-> Base] } \cup { [kind |-> "frame", p |-> p] : p \in Frames }

BatchTrades ==
  { [ticker |-> Str(<<"X","S","P">>),         transaction_date |-> Timestamp(TradeDay)],
    [ticker |-> Str(<<"-","-">>),             transaction_date |-> Timestamp(TradeDay)],
    [ticker |-> Str(<<" ","a","a","p","l"," ">>), transaction_date |-> NaT],
    [ticker |-> Str(<<"B","R","K","/","B">>), transaction_date |-> DateStr],
    [ticker |-> NotStr,                       transaction_date |-> DateStr] }

BatchAnswers ==
  { [kind |-> "raise", p |-> Base],
    [kind |-> "frame", p |-> [Base EXCEPT !.first = 184]],
    [kind |-> "frame", p |-> [Base EXCEPT !.first = 185]] }

RECURSIVE SeqsUpTo(_, _)
SeqsUpTo(S, n) ==
  IF n = 0 THEN { <<>> }
  ELSE LET shorter == SeqsUpTo(S, n - 1)
       IN  shorter \cup { Append(q, x) : q \in { t \in shorter : Len(t) = n - 1 }, x \in S }

----------------------------------------------------------------------------
(* EventStudy.calculate_car(ticker, trade_date, window_days), one action   *)
(* per block of its body.  trade holds the arguments.  res records what    *)
(* the caller sees (raised, value) and what the evaluation did: the ticker *)
(* as reassigned by the sanitizer, the fetches issued, the frame received, *)
(* the joint return series, both slices and the fitted model.  exit names  *)
(* the statement the evaluation has reached or left through.               *)

NoData == [index |-> <<>>, hasTicker |-> FALSE, ticker |-> <<>>, bench |-> <<>>, g |-> One]

Idle ==
  [ exit |-> "idle", raised |-> FALSE, value |-> None, symbol |-> <<>>,
    fetched |-> <<>>, data |-> NoData, returns |-> <<>>, est_data |-> <<>>,
    evt_data |-> <<>>, alpha |-> Zero, beta |-> Zero ]

est_start(trade_date) == trade_date.day - EstStartDays
est_end(trade_date) == trade_date.day - EstEndDays
evt_end(trade_date, window_days) == trade_date.day + window_days

\* end=evt_end + timedelta(days=5)
fetch_end(trade_date, window_days) == evt_end(trade_date, window_days) + FetchPadDays

too_short_only_empty(returns) == returns = <<>>

\* if len(returns) < 50
too_short(returns) == Len(returns) < MinReturns

event_slice_end_padded(trade_date, window_days) == fetch_end(trade_date, window_days)

\* the upper label of returns.loc[trade_date:evt_end]
event_slice_end(trade_date, window_days) == evt_end(trade_date, window_days)

\* the guards, the sanitizer and the window arithmetic, all before the try
Validate ==
  /\ pc = "validate"
  /\ IF isna(trade.transaction_date)
     THEN res' = [Idle EXCEPT !.exit = "no_date"] /\ pc' = "car_done"
     ELSE IF skip_ticker(trade.ticker)
     THEN res' = [Idle EXCEPT !.exit = "bad_ticker"] /\ pc' = "car_done"
     ELSE IF ~supports_timedelta(trade.transaction_date)
     THEN /\ res' = [Idle EXCEPT !.exit = "window_error", !.raised = TRUE,
                                 !.symbol = yahoo_symbol(trade.ticker.s)]
          /\ pc' = "car_done"
     ELSE /\ res' = [Idle EXCEPT !.exit = "validated",
                                 !.symbol = yahoo_symbol(trade.ticker.s)]
          /\ pc' = "fetch"
  /\ UNCHANGED <<trade, df, batch, _cache, lookups>>

\* the provider answers explored: all of them for a direct call, a few for
\* each row of a batch
ProviderAnswers == IF batch.status = "applying" THEN BatchAnswers ELSE Answers

\* yf.download, pct_change().dropna() and the length check; an exception of
\* the provider is caught and the call returns None
Fetch ==
  /\ pc = "fetch"
  /\ \E o \in ProviderAnswers :
       LET start == est_start(trade.transaction_date)
           end == fetch_end(trade.transaction_date, trade.window_days)
           fetched == << [symbols |-> <<res.symbol, benchmark>>,
                          start |-> start, end |-> end] >>
       IN  IF o.kind = "raise"
           THEN /\ res' = [res EXCEPT !.exit = "except", !.fetched = fetched]
                /\ pc' = "car_done"
           ELSE \E data \in { download(o.p, start, end) } :
                \E returns \in { dropna(frame_pct_change(data)) } :
                  /\ res' = [res EXCEPT !.fetched = fetched, !.data = data,
                                        !.returns = returns,
                                        !.exit = IF too_short(returns)
                                                 THEN "short" ELSE "fetched"]
                  /\ pc' = IF too_short(returns) THEN "car_done" ELSE "fit"
  /\ UNCHANGED <<trade, df, batch, _cache, lookups>>

\* the estimation slice, the column check and the regression
Fit ==
  /\ pc = "fit"
  /\ \E est_data \in { loc(res.returns, est_start(trade.transaction_date),
                           est_end(trade.transaction_date)) } :
       IF est_data = <<>> \/ ~res.data.hasTicker
       THEN /\ res' = [res EXCEPT !.exit = "no_est", !.est_data = est_data]
            /\ pc' = "car_done"
       ELSE \E model \in { fit([i \in 1..Len(est_data) |-> est_data[i].bench],
                               [i \in 1..Len(est_data) |-> est_data[i].ticker]) } :
              /\ res' = [res EXCEPT !.exit = "fitted", !.est_data = est_data,
                                    !.alpha = model.intercept, !.beta = model.coef]
              /\ pc' = "aggregate"
  /\ UNCHANGED <<trade, df, batch, _cache, lookups>>

\* the event slice and the sum of the abnormal returns
Aggregate ==
  /\ pc = "aggregate"
  /\ \E evt_data \in { loc(res.returns, trade.transaction_date.day,
                           event_slice_end(trade.transaction_date, trade.window_days)) } :
       IF evt_data = <<>>
       THEN res' = [res EXCEPT !.exit = "no_evt"]
       ELSE res' = [res EXCEPT !.exit = "car", !.evt_data = evt_data,
                               !.value = car_sum(evt_data, res.alpha, res.beta)]
  /\ pc' = "car_done"
  /\ UNCHANGED <<trade, df, batch, _cache, lookups>>

NoBatch == [status |-> "direct", out |-> <<>>, calls |-> <<>>]

InitCar ==
  /\ pc = "validate"
  /\ trade \in [ticker : Tickers, transaction_date : Dates, window_days : Windows]
  /\ res = Idle
  /\ df = <<>>
  /\ batch = NoBatch
  /\ _cache = <<>>
  /\ lookups = <<>>

NextCar == Validate \/ Fetch \/ Fit \/ Aggregate

SpecCar == InitCar /\ [][NextCar]_vars

----------------------------------------------------------------------------
(* EventStudy.analyze_batch(df): df.apply(lambda row: calculate_car(       *)
(* row['ticker'], row['transaction_date']), axis=1).  batch.calls holds    *)
(* one entry per engine call made; a call that raises ends the apply and   *)
(* analyze_batch with it.                                                  *)

row_args(r) ==
  [ticker |-> r.ticker, transaction_date |-> r.transaction_date,
   window_days |-> DefaultWindowDays]

\* if df.empty: return df; otherwise the apply starts on the first row
BatchBegin ==
  /\ pc = "batch_call"
  /\ IF df = <<>>
     THEN /\ batch' = [status |-> "returned", out |-> df, calls |-> <<>>]
          /\ pc' = "batch_done"
          /\ UNCHANGED trade
     ELSE /\ batch' = [status |-> "applying", out |-> <<>>, calls |-> <<>>]
          /\ trade' = row_args(df[1])
          /\ pc' = "validate"
  /\ res' = Idle
  /\ UNCHANGED <<df, _cache, lookups>>

\* a call of the lambda has ended: the apply goes on to the next row, or
\* assigns the column and returns, or is left by the exception
ApplyNext ==
  /\ pc = "car_done"
  /\ batch.status = "applying"
  /\ LET i == Len(batch.calls) + 1
         calls == Append(batch.calls,
                    [ ticker |-> trade.ticker,
                      transaction_date |-> trade.transaction_date,
                      raised |-> res.raised, value |-> res.value,
                      fetched |-> res.fetched ])
     IN  IF res.raised
         THEN /\ batch' = [status |-> "raised", out |-> <<>>, calls |-> calls]
              /\ pc' = "batch_done"
              /\ UNCHANGED <<trade, res>>
         ELSE IF i < Len(df)
         THEN /\ batch' = [batch EXCEPT !.calls = calls]
              /\ trade' = row_args(df[i + 1])
              /\ res' = Idle
              /\ pc' = "validate"
         ELSE /\ batch' = [ status |-> "returned",
                            out |-> [k \in 1..Len(df) |->
                                       [ ticker |-> df[k].ticker,
                                         transaction_date |-> df[k].transaction_date,
                                         car_30d |-> calls[k].value ]],
                            calls |-> calls ]
              /\ pc' = "batch_done"
              /\ UNCHANGED <<trade, res>>
  /\ UNCHANGED <<df, _cache, lookups>>

InitBatch ==
  /\ pc = "batch_call"
  /\ df \in SeqsUpTo(BatchTrades, MaxBatch)
  /\ batch = NoBatch
  /\ trade = row_args([ticker |-> NotStr, transaction_date |-> NaT])
  /\ res = Idle
  /\ _cache = <<>>
  /\ lookups = <<>>

NextBatch == BatchBegin \/ Validate \/ Fetch \/ Fit \/ Aggregate \/ ApplyNext

SpecBatch == InitBatch /\ [][NextBatch]_vars

----------------------------------------------------------------------------
(* AssetEnricher: _cache maps a normalized ticker to the metadata stored   *)
(* for it.  yf.Ticker(t).info either raises or is a dict that may lack     *)
(* keys.  lookups is the history of get_asset_info calls: the argument,    *)
(* the normalized ticker, whether the provider was queried, the record     *)
(* returned.                                                               *)

Unknown == <<"U","n","k","n","o","w","n">>

_default_metadata ==
  [name |-> Unknown, sector |-> Unknown, industry |-> Unknown, market_cap |-> 0]

\* dict.get(key, default)
info_get(info, key, default) == IF key \in DOMAIN info THEN info[key] ELSE default

EnrichTickers ==
  { Str(<<"a","a","p","l">>), Str(<<" ","A","A","P","L">>),
    Str(<<"B","R","K","/","B">>), Str(<<"b","r","k",".","b">>),
    Str(<<"$","B","T","C">>), Str(<<"3","M">>), Str(<<>>), Str(<<"-","-","-">>),
    Str(<<"U","N","K","N","O","W","N","1">>), NotStr }

Infos ==
  { [ shortName |-> <<"A","c","m","e">>, sector |-> <<"T","e","c","h">>,
      industry |-> <<"C","h","i","p","s">>, marketCap |-> 7 ],
    [ shortName |-> <<"A","c","m","e">> ] }

InfoAnswers ==
  { [kind |-> "raise", info |-> <<>>] } \cup { [kind |-> "info", info |-> i] : i \in Infos }

\* ticker.strip().upper(), then .replace('/', '-').replace('.', '-')
enrich_key(s) == replace(replace(upper(strip(s)), "/", "-"), ".", "-")

cache_has(c, t) == t \in DOMAIN c

\* self._cache[ticker] = metadata
cache_put(c, t, metadata) ==
  [k \in DOMAIN c \cup {t} |-> IF k = t THEN metadata ELSE c[k]]

\* the cache after the except branch: the failure is not stored
cache_after_failure(c, t) == c

\* get_asset_info(ticker) against a provider that answers a: the record
\* returned, the cache afterwards, whether the provider was queried and
\* whether that query failed
get_asset_info(c, ticker, a) ==
  IF ~ticker.isStr
  THEN [ret |-> _default_metadata, cache |-> c, queried |-> FALSE, failed |-> FALSE, key |-> <<>>]
  ELSE
    LET t == enrich_key(ticker.s)
    IN  IF startswith(t, "$") \/ (Len(t) > 0 /\ isdigit(t[1]))
        THEN [ret |-> _default_metadata, cache |-> c, queried |-> FALSE, failed |-> FALSE, key |-> t]
        ELSE IF cache_has(c, t)
        THEN [ret |-> c[t], cache |-> c, queried |-> FALSE, failed |-> FALSE, key |-> t]
        ELSE IF t = <<>> \/ t = <<"-","-","-">>
                \/ contains(t, <<"U","N","K","N","O","W","N">>)
        THEN [ret |-> _default_metadata, cache |-> c, queried |-> FALSE, failed |-> FALSE, key |-> t]
        ELSE IF a.kind = "raise"
        THEN [ret |-> _default_metadata, cache |-> cache_after_failure(c, t),
              queried |-> TRUE, failed |-> TRUE, key |-> t]
        ELSE LET metadata ==
                   [ name |-> info_get(a.info, "shortName", Unknown),
                     sector |-> info_get(a.info, "sector", Unknown),
                     industry |-> info_get(a.info, "industry", Unknown),
                     market_cap |-> info_get(a.info, "marketCap", 0) ]
             IN  [ret |-> metadata, cache |-> cache_put(c, t, metadata),
                  queried |-> TRUE, failed |-> FALSE, key |-> t]

InitEnrich ==
  /\ pc = "ready"
  /\ _cache = <<>>
  /\ lookups = <<>>
  /\ trade = row_args([ticker |-> NotStr, transaction_date |-> NaT])
  /\ res = Idle
  /\ df = <<>>
  /\ batch = NoBatch

GetAssetInfo ==
  /\ pc = "ready"
  /\ Len(lookups) < MaxLookups
  /\ \E ticker \in EnrichTickers, a \in InfoAnswers :
       \E r \in { get_asset_info(_cache, ticker, a) } :
         /\ _cache' = r.cache
         /\ lookups' = Append(lookups, [ ticker |-> ticker, key |-> r.key,
                                         queried |-> r.queried, failed |-> r.failed,
                                         ret |-> r.ret ])
  /\ UNCHANGED <<pc, trade, res, df, batch>>

NextEnrich == GetAssetInfo

SpecEnrich == InitEnrich /\ [][NextEnrich]_vars

----------------------------------------------------------------------------
(* The three entry points together                                         *)

Init == InitCar \/ InitBatch \/ InitEnrich

Next ==
  \/ Validate \/ Fetch \/ Fit \/ Aggregate
  \/ BatchBegin \/ ApplyNext
  \/ GetAssetInfo

Spec == Init /\ [][Next]_vars

----------------------------------------------------------------------------
(* Properties of calculate_car, checked under SpecCar                      *)

CarDone == pc = "car_done"

TradeDate == trade.transaction_date.day

\* C1: for every ticker and transaction_date value and every provider
\* behaviour, calculate_car returns a float or None; no failure of any step,
\* the window arithmetic before the fetch included, reaches the caller.
C1_NeverRaises == CarDone => ~res.raised

\* the tickers C3 calls unusable: not a string, empty after trimming, a
\* placeholder token, currency-prefixed and not remapped, or digit-leading
ClaimUnusable(ticker) ==
  \/ ~ticker.isStr
  \/ strip(ticker.s) = <<>>
  \/ ticker.s \in { <<"-","-">>, <<"N","a","N">> }
  \/ /\ startswith(strip(ticker.s), "$")
     /\ ~\E e \in TICKER_MAP : e[1] = sanitize(ticker.s)
  \/ /\ strip(ticker.s) # <<>>
     /\ isdigit(strip(ticker.s)[1])

\* C3: for every unusable ticker calculate_car returns None and the price
\* provider is never called for that trade.
C3_UnusableNeverFetched ==
  (CarDone /\ ~res.raised /\ ClaimUnusable(trade.ticker))
    => (res.value = None /\ res.fetched = <<>>)

\* C4: a trade whose transaction_date is undefined yields None whatever the
\* ticker is, and the price provider is never called for it.
C4_NoDateIsNull ==
  (CarDone /\ trade.transaction_date.kind = "NaT")
    => (~res.raised /\ res.value = None /\ res.fetched = <<>>)

C4_Witness ==
  /\ CarDone
  /\ trade.transaction_date.kind = "NaT"
  /\ trade.ticker = Str(<<"X","S","P">>)
  /\ res.exit = "no_date"
  /\ res.value = None

\* the rows of a frame that carry a joint return: every column the frame
\* holds has a price on the row and on the row before it
Priced(data, i) ==
  data.bench[i] # NaN /\ (data.hasTicker => data.ticker[i] # NaN)

JointRows(data) ==
  { i \in 2..Len(data.index) : Priced(data, i) /\ Priced(data, i - 1) }

\* C5: whenever the joint return series of the fetched prices has fewer than
\* 50 observations the result is None, however many of them fall in the
\* estimation or event window; an all-NaN series for the symbol yields None.
C5_ShortHistoryIsNull ==
  (CarDone /\ res.fetched # <<>> /\ Cardinality(JointRows(res.data)) < 50)
    => (~res.raised /\ res.value = None)

C5_Witness ==
  /\ CarDone
  /\ res.value = None
  /\ Cardinality(JointRows(res.data)) \in 1..49
  /\ \E i \in JointRows(res.data) :
       /\ res.data.index[i] >= TradeDate - 200
       /\ res.data.index[i] <= TradeDate - 10
  /\ \E i \in JointRows(res.data) :
       /\ res.data.index[i] >= TradeDate
       /\ res.data.index[i] <= TradeDate + trade.window_days

\* the symbol C6 expects for a raw ticker: trimmed, upper-cased, '/' and '.'
\* replaced by '-', then remapped
ClaimChar(c) ==
  IF c \in {"/", "."} THEN "-"
  ELSE IF \E i \in 1..26 : Lower[i] = c
       THEN Upper[CHOOSE i \in 1..26 : Lower[i] = c]
       ELSE c

ClaimTrim(s) ==
  LET inked == { i \in 1..Len(s) : s[i] # " " }
  IN  IF inked = {} THEN <<>>
      ELSE SubSeq(s, CHOOSE i \in inked : \A j \in inked : i <= j,
                     CHOOSE i \in inked : \A j \in inked : j <= i)

ClaimRemap(t) ==
  CASE t = <<"$","B","T","C">> -> <<"B","T","C","-","U","S","D">>
    [] t = <<"V","W","U","S","X",":","U","S">> -> <<"V","W","U","S","X">>
    [] t = <<"X","S","P">> -> <<"S","P","Y">>
    [] OTHER -> t

ClaimSymbol(s) ==
  LET t == ClaimTrim(s) IN ClaimRemap([i \in 1..Len(t) |-> ClaimChar(t[i])])

\* C6: the symbol passed to the price provider is exactly remap(replace '/'
\* and '.' by '-' in uppercase(trim(raw))), resolved before the fetch: BRK/B
\* is fetched as BRK-B, $BTC as BTC-USD and XSP as SPY.
C6_FetchedSymbol ==
  res.fetched # <<>> =>
    /\ Len(res.fetched) = 1
    /\ res.fetched[1].symbols = <<ClaimSymbol(trade.ticker.s), <<"^","G","S","P","C">>>>
    /\ trade.ticker.s = <<"B","R","K","/","B">>
         => res.fetched[1].symbols[1] = <<"B","R","K","-","B">>
    /\ trade.ticker.s = <<"$","B","T","C">>
         => res.fetched[1].symbols[1] = <<"B","T","C","-","U","S","D">>
    /\ trade.ticker.s = <<"X","S","P">>
         => res.fetched[1].symbols[1] = <<"S","P","Y">>

C6_Witness ==
  /\ res.fetched # <<>>
  /\ trade.ticker.s = <<" ","x","s","p"," ">>
  /\ res.fetched[1].symbols[1] = <<"S","P","Y">>

\* the abnormal return of a row of the joint series under the fitted model
ClaimAbnormal(r) == RSub(r.ticker, RAdd(res.alpha, RMul(res.beta, r.bench)))

InEventWindow(d) == TradeDate <= d /\ d <= TradeDate + trade.window_days

\* C7: a non-null CAR is the plain sum, over exactly the joint return dates d
\* with trade_date <= d <= trade_date + horizon_days, of asset_return[d] -
\* (alpha + beta * benchmark_return[d]); dates in the fetch padding or before
\* trade_date do not contribute.
C7_CarIsEventWindowSum ==
  (CarDone /\ res.value # None) =>
    res.value = RSum([i \in 1..Len(res.returns) |->
                        IF InEventWindow(res.returns[i].date)
                        THEN ClaimAbnormal(res.returns[i]) ELSE Zero],
                     Len(res.returns))

C7_Witness ==
  /\ CarDone
  /\ res.value # None
  /\ res.value # Zero
  /\ \E i \in 1..Len(res.returns) :
       /\ res.returns[i].date > TradeDate + trade.window_days
       /\ ClaimAbnormal(res.returns[i]) # Zero
  /\ \E i \in 1..Len(res.returns) :
       /\ res.returns[i].date < TradeDate
       /\ ClaimAbnormal(res.returns[i]) # Zero

\* both columns of the frame grow by the factor 1.01 on every row, so that
\* every return of the asset and of the benchmark is 0.01
Hundredth == <<1, 100>>

ConstantGrowth(data) ==
  /\ data.hasTicker
  /\ data.g = <<101, 100>>
  /\ Len(data.index) >= 2
  /\ \A i \in 1..Len(data.index) : data.ticker[i] # NaN /\ data.bench[i] # NaN
  /\ \A i \in 2..Len(data.index) :
       /\ data.ticker[i][1] - data.ticker[i-1][1] = 1
       /\ data.bench[i][1] - data.bench[i-1][1] = 1

ClaimReturn(col, i, g) == RSub(RPow(g, col[i][1] - col[i-1][1]), One)

ClaimReturns(data) ==
  LET rows == SelectSeq([i \in 1..Len(data.index) |-> i],
                        LAMBDA i : i > 1 /\ Priced(data, i) /\ Priced(data, i - 1))
  IN  [k \in 1..Len(rows) |->
         [ date |-> data.index[rows[k]],
           ticker |-> IF data.hasTicker
                      THEN ClaimReturn(data.ticker, rows[k], data.g) ELSE NaN,
           bench |-> ClaimReturn(data.bench, rows[k], data.g) ]]

Rows(s) == { s[i] : i \in 1..Len(s) }

----------------------------------------------------------------------------
(* Properties of analyze_batch, checked under SpecBatch                    *)

\* C2: for any input batch analyze_batch returns as many records as it was
\* given, in the same order; the engine is called exactly once per record,
\* whether or not earlier records gave None; record i carries the result of
\* calculate_car on its own ticker and transaction_date.
C2_BatchCompleteInOrder ==
  pc = "batch_done" =>
    /\ batch.status = "returned"
    /\ Len(batch.out) = Len(df)
    /\ Len(batch.calls) = Len(df)
    /\ \A i \in 1..Len(df) :
         /\ batch.calls[i].ticker = df[i].ticker
         /\ batch.calls[i].transaction_date = df[i].transaction_date
         /\ batch.out[i].ticker = df[i].ticker
         /\ batch.out[i].transaction_date = df[i].transaction_date
         /\ batch.out[i].car_30d = batch.calls[i].value

----------------------------------------------------------------------------
(* Properties of AssetEnricher, checked under SpecEnrich                   *)

\* C9: the metadata provider is queried at most once for each normalized
\* ticker, whether that query succeeded or failed; every later lookup of the
\* same normalized ticker returns the record the first one returned; a
\* failed fetch yields the "Unknown" default record.
C9_QueriedOncePerTicker ==
  /\ \A i \in 1..Len(lookups) :
       lookups[i].failed => lookups[i].ret = _default_metadata
  /\ \A i \in 1..Len(lookups) : \A j \in (i + 1)..Len(lookups) :
       ( /\ lookups[i].ticker.isStr
         /\ lookups[j].ticker.isStr
         /\ lookups[i].key = lookups[j].key )
       => /\ ~(lookups[i].queried /\ lookups[j].queried)
          /\ lookups[j].ret = lookups[i].ret

====
